---- MODULE Spec2Model ----
(***************************************************************************)
(* Model of the in-memory OAuth provider                                   *)
(* (src/examples/server/inMemoryOAuthProvider.ts) and of the auth router   *)
(* (mcpAuthRouter / mcpProtectedResourceRouter / checkIssuerUrl).          *)
(*                                                                         *)
(* An optional JavaScript value (T | undefined) is a sequence of length at *)
(* most one: <<>> is undefined, <<x>> is the value x.                      *)
(***************************************************************************)
EXTENDS Integers, Sequences, FiniteSets, TLC

VARIABLES
    clients,    \* InMemoryClientsStore.clients : client_id -> client
    codes,      \* InMemoryAuthProvider.codes   : code -> {client, params}
    tokens,     \* InMemoryAuthProvider.tokens  : token -> AuthInfo
    uuids,      \* number of values randomUUID() has returned so far
    now,        \* Date.now(), in milliseconds
    last,       \* what the method call that completed last returned or threw
    issued,     \* history: code -> client it was issued to by authorize
    consumed,   \* history: code -> token minted when the code was exchanged
    calls,      \* in-flight exchangeAuthorizationCode calls (race scenario)
    running,    \* the call whose synchronous body is on the JS stack, or 0
    router      \* state of one router construction and of the mounted app

vars == <<clients, codes, tokens, uuids, now, last, issued, consumed, calls, running, router>>

providerVars == <<clients, codes, tokens, uuids, now, last, issued, consumed>>

----------------------------------------------------------------------------
(* Bounds and program constants                                            *)

\* randomUUID() is called at most MaxUuids times in a behaviour
MaxUuids == 2

\* number of concurrent exchange calls in the race scenario
MaxCalls == 3

\* expiresAt: Date.now() + 3600000
TTL_MS == 3600000

\* expires_in: 3600
EXPIRES_IN == 3600

\* Math.floor(tokenData.expiresAt / 1000)
MS_PER_S == 1000

\* a Date.now() value at construction (any instant: only differences matter)
Epoch == 1700000123

\* the instants at which Date.now() is read, chosen around one token lifetime
\* and one well after it
Instants == {Epoch, Epoch + TTL_MS - 1, Epoch + TTL_MS, Epoch + TTL_MS + 1, Epoch + 2 * TTL_MS}

----------------------------------------------------------------------------
(* Values                                                                  *)

undefined == <<>>

Some(x) == <<x>>

\* a || b for an optional a
OrElse(opt, dflt) == IF opt = undefined THEN dflt ELSE opt[1]

\* OAuthClientInformationFull: the fields the provider reads
ClientObjs ==
    { [client_id |-> "c1", redirect_uris |-> <<"https://app.example.com/cb">>],
      [client_id |-> "c2", redirect_uris |-> <<"https://two.example.com/cb", "https://two.example.com/alt">>] }

\* code_verifier values a caller may present (undefined: none supplied)
Verifiers == {undefined, Some("verifier1"), Some("verifier2")}

\* PKCE S256: BASE64URL(SHA256(verifier)), tabulated on the verifiers used
S256(v) ==
    CASE v = "verifier1" -> "Nc5FxZBFp4QXiKYl2pAbC7s9Bt5d1fPq"
      [] v = "verifier2" -> "0Zk3r6VtJx8LmQeWcYb1uHn4oGsDa2Tf"
      [] OTHER -> "47DEQpj8HBSa-_TImW-5JCeuQeRkm5NM"

\* AuthorizationParams passed to authorize
ParamsSet ==
    { [codeChallenge |-> S256("verifier1"), scopes |-> undefined,
       redirectUri |-> "https://app.example.com/cb", state |-> undefined],
      [codeChallenge |-> S256("verifier2"), scopes |-> Some(<<"read", "write">>),
       redirectUri |-> "https://two.example.com/alt", state |-> Some("xyz")],
      [codeChallenge |-> S256("verifier1"), scopes |-> Some(<<>>),
       redirectUri |-> "https://two.example.com/cb", state |-> Some("s1")] }

\* the caller has checked params.redirectUri against the client's redirect_uris
Permitted(client, params) ==
    \E k \in DOMAIN client.redirect_uris : client.redirect_uris[k] = params.redirectUri

\* strings presented as codes or tokens: every value randomUUID() has
\* returned so far (the n-th call returns n), and 0, which it never returns
Presented == 0 .. uuids

\* Array.prototype.join(sep)
RECURSIVE join(_, _)
join(arr, sep) ==
    IF Len(arr) = 0 THEN ""
    ELSE IF Len(arr) = 1 THEN arr[1]
    ELSE arr[1] \o sep \o join(Tail(arr), sep)

\* Map.prototype.get
MapGet(m, k) == IF k \in DOMAIN m THEN Some(m[k]) ELSE undefined

\* Map.prototype.set
MapSet(m, k, v) == [x \in DOMAIN m \cup {k} |-> IF x = k THEN v ELSE m[x]]

\* Map.prototype.delete
MapDelete(m, k) == [x \in DOMAIN m \ {k} |-> m[x]]

EmptyMap == [x \in {} |-> 0]

\* randomUUID(): a value never returned before
randomUUID == uuids + 1

----------------------------------------------------------------------------
(* InMemoryClientsStore                                                    *)

\* getClient(clientId)
getClient(clientId) == MapGet(clients, clientId)

\* what the caller of a method observes: a value returned or an Error thrown
\* no value returned (ret is always a record; a returned string s is [string |-> s])
NoValue == [void |-> TRUE]

\* (arg: the code or token string the call presented, 0 when it takes none;
\* verifier: the code_verifier an exchangeAuthorizationCode call presented)
Returned(op, arg, ret) ==
    [op |-> op, arg |-> arg, verifier |-> undefined, ok |-> TRUE, err |-> "", ret |-> ret]

Thrown(op, arg, message) ==
    [op |-> op, arg |-> arg, verifier |-> undefined, ok |-> FALSE, err |-> message, ret |-> NoValue]

With(call, verifier) == [call EXCEPT !.verifier = verifier]

\* registerClient(clientMetadata)
registerClient(clientMetadata) ==
    /\ clients' = MapSet(clients, clientMetadata.client_id, clientMetadata)
    /\ last' = Returned("registerClient", 0, clientMetadata)
    /\ UNCHANGED <<codes, tokens, uuids, now, issued, consumed, calls, running, router>>

----------------------------------------------------------------------------
(* InMemoryAuthProvider: the statements of its methods                     *)

\* throw new Error('Invalid authorization code')
ErrInvalidCode == "Invalid authorization code"

\* throw new Error(`Authorization code was not issued to this client, ...`)
ErrNotIssued(codeData, client) ==
    "Authorization code was not issued to this client, "
        \o codeData.client.client_id \o " != " \o client.client_id

\* throw new Error('Not implemented for example demo')
ErrNotImplemented == "Not implemented for example demo"

\* throw new Error('Invalid or expired token')
ErrInvalidToken == "Invalid or expired token"

\* authorize: the URL handed to res.redirect (base URL and its query pairs)
redirectTarget(client, params, code) ==
    [base |-> client.redirect_uris[1], search |-> << <<"code", code>> >>]

\* mutant of codeRecord: the requested scopes are not kept with the code
codeRecord_NoScopes(client, params) ==
    [client |-> client, params |-> [params EXCEPT !.scopes = undefined]]

\* authorize: the record stored under the new code
codeRecord(client, params) == [client |-> client, params |-> params]

\* mutant of ownerMismatch: the ownership check is dropped
ownerMismatch_Dropped(codeData, client) == FALSE

\* exchangeAuthorizationCode: codeData.client.client_id !== client.client_id
ownerMismatch(codeData, client) == codeData.client.client_id # client.client_id

\* mutant of verifierRejected: the verifier is hashed and compared with the challenge
verifierRejected_Pkce(codeData, verifier) ==
    verifier # undefined /\ S256(verifier[1]) # codeData.params.codeChallenge

\* exchangeAuthorizationCode: the _codeVerifier parameter is never read
verifierRejected(codeData, verifier) == FALSE

\* mutant of codesAfterRefusal: a refused attempt burns the code
codesAfterRefusal_Burn(cs, code) == MapDelete(cs, code)

\* exchangeAuthorizationCode: the code store when the client check throws
\* (the throw comes before this.codes.delete)
codesAfterRefusal(cs, code) == cs

\* mutant of codesAfterUse: the used code is not removed
codesAfterUse_Kept(cs, code) == cs

\* exchangeAuthorizationCode: this.codes.delete(authorizationCode)
codesAfterUse(cs, code) == MapDelete(cs, code)

\* mutant of tokenRecord: the lifetime is added in seconds to a clock in milliseconds
tokenRecord_Seconds(token, client, codeData, t) ==
    [token |-> token,
     clientId |-> client.client_id,
     scopes |-> OrElse(codeData.params.scopes, <<>>),
     expiresAt |-> t + EXPIRES_IN,
     type |-> "access"]

\* exchangeAuthorizationCode: tokenData
tokenRecord(token, client, codeData, t) ==
    [token |-> token,
     clientId |-> client.client_id,
     scopes |-> OrElse(codeData.params.scopes, <<>>),
     expiresAt |-> t + TTL_MS,
     type |-> "access"]

\* exchangeAuthorizationCode: the OAuthTokens returned
tokenResponse(token, codeData) ==
    [access_token |-> token,
     token_type |-> "Bearer",
     expires_in |-> EXPIRES_IN,
     scope |-> join(OrElse(codeData.params.scopes, <<>>), " ")]

\* mutant of verifyRejects: a token is refused for one lifetime after its
\* expiry only
verifyRejects_Window(tokenData, t) ==
    \/ tokenData = undefined
    \/ (tokenData[1].expiresAt < t /\ t < tokenData[1].expiresAt + TTL_MS)
    \/ tokenData[1].type = "refresh"

\* verifyAccessToken: the condition under which it throws
verifyRejects(tokenData, t) ==
    \/ tokenData = undefined
    \/ tokenData[1].expiresAt < t
    \/ tokenData[1].type = "refresh"

\* mutant of authInfo: the stored expiry is returned as it is, in milliseconds
authInfo_Ms(token, tokenData) ==
    [token |-> token,
     clientId |-> tokenData.clientId,
     scopes |-> tokenData.scopes,
     expiresAt |-> tokenData.expiresAt]

\* verifyAccessToken: the AuthInfo returned
authInfo(token, tokenData) ==
    [token |-> token,
     clientId |-> tokenData.clientId,
     scopes |-> tokenData.scopes,
     expiresAt |-> tokenData.expiresAt \div MS_PER_S]

\* mutant of tokensAfterVerify: an expired token is evicted when it is looked up
tokensAfterVerify_Evict(ts, token, t) ==
    IF token \in DOMAIN ts /\ ts[token].expiresAt < t THEN MapDelete(ts, token) ELSE ts

\* verifyAccessToken: the token store after the call (it is only read)
tokensAfterVerify(ts, token, t) == ts

\* mutant of codesAfterChallenge: reading the challenge consumes the code
codesAfterChallenge_Consume(cs, code) == MapDelete(cs, code)

\* challengeForAuthorizationCode: the code store after the call (only read)
codesAfterChallenge(cs, code) == cs

----------------------------------------------------------------------------
(* InMemoryAuthProvider: one action per method call                        *)

\* authorize(client, params, res)
authorize(client, params) ==
    /\ uuids < MaxUuids
    /\ LET code == randomUUID IN
        /\ uuids' = uuids + 1
        /\ codes' = MapSet(codes, code, codeRecord(client, params))
        /\ issued' = MapSet(issued, code, client)
        /\ last' = Returned("authorize", 0, redirectTarget(client, params, code))
    /\ UNCHANGED <<clients, tokens, now, consumed, calls, running, router>>

\* challengeForAuthorizationCode(client, authorizationCode)
challengeForAuthorizationCode(client, authorizationCode) ==
    /\ LET codeData == MapGet(codes, authorizationCode) IN
        /\ last' = IF codeData = undefined
                   THEN Thrown("challengeForAuthorizationCode", authorizationCode, ErrInvalidCode)
                   ELSE Returned("challengeForAuthorizationCode", authorizationCode,
                                 [string |-> codeData[1].params.codeChallenge])
        /\ codes' = codesAfterChallenge(codes, authorizationCode)
    /\ UNCHANGED <<clients, tokens, uuids, now, issued, consumed, calls, running, router>>

\* exchangeAuthorizationCode(client, authorizationCode, _codeVerifier)
exchangeAuthorizationCode(client, authorizationCode, codeVerifier) ==
    LET codeData == MapGet(codes, authorizationCode) IN
    IF codeData = undefined THEN
        /\ last' = With(Thrown("exchangeAuthorizationCode", authorizationCode, ErrInvalidCode),
                        codeVerifier)
        /\ UNCHANGED <<clients, codes, tokens, uuids, now, issued, consumed, calls, running, router>>
    ELSE IF ownerMismatch(codeData[1], client) THEN
        /\ last' = With(Thrown("exchangeAuthorizationCode", authorizationCode,
                               ErrNotIssued(codeData[1], client)), codeVerifier)
        /\ codes' = codesAfterRefusal(codes, authorizationCode)
        /\ UNCHANGED <<clients, tokens, uuids, now, issued, consumed, calls, running, router>>
    ELSE IF verifierRejected(codeData[1], codeVerifier) THEN
        /\ last' = With(Thrown("exchangeAuthorizationCode", authorizationCode, ErrInvalidCode),
                        codeVerifier)
        /\ UNCHANGED <<clients, codes, tokens, uuids, now, issued, consumed, calls, running, router>>
    ELSE
        /\ uuids < MaxUuids
        /\ LET token == randomUUID IN
            /\ uuids' = uuids + 1
            /\ codes' = codesAfterUse(codes, authorizationCode)
            /\ tokens' = MapSet(tokens, token, tokenRecord(token, client, codeData[1], now))
            /\ consumed' = MapSet(consumed, authorizationCode, token)
            /\ last' = With(Returned("exchangeAuthorizationCode", authorizationCode,
                                     tokenResponse(token, codeData[1])), codeVerifier)
        /\ UNCHANGED <<clients, now, issued, calls, running, router>>

\* mutant of exchangeRefreshToken: a stored token presented as refresh token is honoured
exchangeRefreshToken_Reissue(client, refreshToken, scopes) ==
    /\ last' = IF refreshToken \in DOMAIN tokens
               THEN Returned("exchangeRefreshToken", refreshToken,
                             [access_token |-> refreshToken, token_type |-> "Bearer",
                              expires_in |-> EXPIRES_IN, scope |-> ""])
               ELSE Thrown("exchangeRefreshToken", refreshToken, ErrNotImplemented)
    /\ UNCHANGED <<clients, codes, tokens, uuids, now, issued, consumed, calls, running, router>>

\* exchangeRefreshToken(_client, _refreshToken, _scopes)
exchangeRefreshToken(client, refreshToken, scopes) ==
    /\ last' = Thrown("exchangeRefreshToken", refreshToken, ErrNotImplemented)
    /\ UNCHANGED <<clients, codes, tokens, uuids, now, issued, consumed, calls, running, router>>

\* verifyAccessToken(token)
verifyAccessToken(token) ==
    /\ LET tokenData == MapGet(tokens, token) IN
        /\ last' = IF verifyRejects(tokenData, now)
                   THEN Thrown("verifyAccessToken", token, ErrInvalidToken)
                   ELSE Returned("verifyAccessToken", token, authInfo(token, tokenData[1]))
        /\ tokens' = tokensAfterVerify(tokens, token, now)
    /\ UNCHANGED <<clients, codes, uuids, now, issued, consumed, calls, running, router>>

\* the wall clock moves forward between calls
Tick ==
    /\ \E t \in Instants : t > now /\ now' = t
    /\ UNCHANGED <<clients, codes, tokens, uuids, last, issued, consumed, calls, running, router>>

NoCall == Returned("none", 0, NoValue)

NoRouter == [pc |-> "unused"]

Init ==
    /\ clients = EmptyMap
    /\ codes = EmptyMap
    /\ tokens = EmptyMap
    /\ uuids = 0
    /\ now = Epoch
    /\ last = NoCall
    /\ issued = EmptyMap
    /\ consumed = EmptyMap
    /\ calls = EmptyMap
    /\ running = 0
    /\ router = NoRouter

Next ==
    \/ \E c \in ClientObjs : registerClient(c)
    \/ \E c \in ClientObjs, p \in ParamsSet : Permitted(c, p) /\ authorize(c, p)
    \/ \E c \in ClientObjs, code \in Presented : challengeForAuthorizationCode(c, code)
    \/ \E c \in ClientObjs, code \in Presented, v \in Verifiers :
            exchangeAuthorizationCode(c, code, v)
    \/ \E c \in ClientObjs, t \in {0, uuids}, sc \in {undefined, Some(<<"read">>)} :
            exchangeRefreshToken(c, t, sc)
    \/ \E t \in Presented : verifyAccessToken(t)
    \/ Tick

Spec == Init /\ [][Next]_vars

----------------------------------------------------------------------------
(* Concurrent exchanges of one code.  A call of the async method runs its  *)
(* body on the JavaScript thread; another call can run only when the       *)
(* running one has finished or is suspended at an await.  The body of      *)
(* exchangeAuthorizationCode is modelled statement by statement.           *)

\* mutant of awaitAfter: the code store is awaited after the lookup
awaitAfter_Lookup(stmt) == stmt = "L77"

\* the statements of exchangeAuthorizationCode after which the call is
\* suspended (an await): the body has none
awaitAfter(stmt) == FALSE

CallIds == DOMAIN calls

Finished(i) == calls[i].pc \in {"resolved", "rejected"}

\* call i may run a statement: the thread is free, or call i is on it
MayRun(i) == /\ i \in CallIds
             /\ ~Finished(i)
             /\ running \in {0, i}

\* call i has run statement stmt and is now at pc: who holds the thread next
Handover(i, stmt, pc) ==
    IF pc \in {"resolved", "rejected"} \/ awaitAfter(stmt) THEN 0 ELSE i

Advance(i, stmt, pc, upd) ==
    /\ calls' = [calls EXCEPT ![i] = [f \in DOMAIN calls[i] |->
                    IF f = "pc" THEN pc
                    ELSE IF f \in DOMAIN upd THEN upd[f]
                    ELSE calls[i][f]]]
    /\ running' = Handover(i, stmt, pc)

\* const codeData = this.codes.get(authorizationCode)
stmtGet(i) ==
    /\ MayRun(i) /\ calls[i].pc = "L77"
    /\ Advance(i, "L77", "L78", [codeData |-> MapGet(codes, calls[i].code)])
    /\ UNCHANGED providerVars /\ UNCHANGED router

\* if (!codeData) throw ...
stmtCheckFound(i) ==
    /\ MayRun(i) /\ calls[i].pc = "L78"
    /\ IF calls[i].codeData = undefined
       THEN Advance(i, "L78", "rejected", [err |-> ErrInvalidCode])
       ELSE Advance(i, "L78", "L82", EmptyMap)
    /\ UNCHANGED providerVars /\ UNCHANGED router

\* if (codeData.client.client_id !== client.client_id) throw ...
stmtCheckOwner(i) ==
    /\ MayRun(i) /\ calls[i].pc = "L82"
    /\ IF ownerMismatch(calls[i].codeData[1], calls[i].client)
       THEN Advance(i, "L82", "rejected",
                    [err |-> ErrNotIssued(calls[i].codeData[1], calls[i].client)])
       ELSE IF verifierRejected(calls[i].codeData[1], calls[i].verifier)
       THEN Advance(i, "L82", "rejected", [err |-> ErrInvalidCode])
       ELSE Advance(i, "L82", "L87", EmptyMap)
    /\ UNCHANGED providerVars /\ UNCHANGED router

\* mutant of stmtDelete: the statement is passed without deleting the code
stmtDelete_Skipped(i) ==
    /\ MayRun(i) /\ calls[i].pc = "L87"
    /\ Advance(i, "L87", "L90", EmptyMap)
    /\ UNCHANGED providerVars /\ UNCHANGED router

\* this.codes.delete(authorizationCode)
stmtDelete(i) ==
    /\ MayRun(i) /\ calls[i].pc = "L87"
    /\ codes' = codesAfterUse(codes, calls[i].code)
    /\ Advance(i, "L87", "L90", EmptyMap)
    /\ UNCHANGED <<clients, tokens, uuids, now, last, issued, consumed, router>>

\* const token = randomUUID()
stmtToken(i) ==
    /\ MayRun(i) /\ calls[i].pc = "L90"
    /\ uuids' = uuids + 1
    /\ Advance(i, "L90", "L101", [token |-> randomUUID])
    /\ UNCHANGED <<clients, codes, tokens, now, last, issued, consumed, router>>

\* this.tokens.set(token, tokenData)
stmtStore(i) ==
    /\ MayRun(i) /\ calls[i].pc = "L101"
    /\ tokens' = MapSet(tokens, calls[i].token,
                        tokenRecord(calls[i].token, calls[i].client, calls[i].codeData[1], now))
    /\ consumed' = MapSet(consumed, calls[i].code, calls[i].token)
    /\ Advance(i, "L101", "L103", EmptyMap)
    /\ UNCHANGED <<clients, codes, uuids, now, last, issued, router>>

\* return { access_token: token, ... }
stmtReturn(i) ==
    /\ MayRun(i) /\ calls[i].pc = "L103"
    /\ Advance(i, "L103", "resolved",
               [ret |-> Some(tokenResponse(calls[i].token, calls[i].codeData[1]))])
    /\ UNCHANGED providerVars /\ UNCHANGED router

\* a call that has been made and has not run any statement yet
NewCall(client, code, verifier) ==
    [pc |-> "L77", client |-> client, code |-> code, verifier |-> verifier,
     codeData |-> undefined, token |-> 0, err |-> "", ret |-> undefined]

\* one code has been issued by authorize; n calls exchange it
InitRace ==
    \E c \in ClientObjs, p \in ParamsSet, n \in 2 .. MaxCalls, v \in Verifiers :
        /\ Permitted(c, p)
        /\ clients = EmptyMap
        /\ codes = MapSet(EmptyMap, 1, codeRecord(c, p))
        /\ tokens = EmptyMap
        /\ uuids = 1
        /\ now = Epoch
        /\ last = Returned("authorize", 0, redirectTarget(c, p, 1))
        /\ issued = MapSet(EmptyMap, 1, c)
        /\ consumed = EmptyMap
        /\ calls = [i \in 1 .. n |-> NewCall(c, 1, v)]
        /\ running = 0
        /\ router = NoRouter

NextRace ==
    \/ \E i \in CallIds : stmtGet(i)
    \/ \E i \in CallIds : stmtCheckFound(i)
    \/ \E i \in CallIds : stmtCheckOwner(i)
    \/ \E i \in CallIds : stmtDelete(i)
    \/ \E i \in CallIds : stmtToken(i)
    \/ \E i \in CallIds : stmtStore(i)
    \/ \E i \in CallIds : stmtReturn(i)

SpecRace == InitRace /\ [][NextRace]_vars

----------------------------------------------------------------------------
(* URL objects (the WHATWG URL API), as far as the router reads them.      *)
(* query and fragment are optional: undefined when the URL has no "?" or   *)
(* "#", Some("") when it has one with nothing after it.                    *)

Url(scheme, host, path, query, fragment) ==
    [scheme |-> scheme, host |-> host, path |-> path, query |-> query, fragment |-> fragment]

\* url.protocol
protocol(url) == url.scheme \o ":"

\* url.hostname
hostname(url) == url.host

\* url.search: empty when the query is absent or empty
search(url) == IF url.query = undefined \/ url.query = Some("") THEN "" ELSE "?" \o url.query[1]

\* url.hash: empty when the fragment is absent or empty
hash(url) == IF url.fragment = undefined \/ url.fragment = Some("") THEN "" ELSE "#" \o url.fragment[1]

\* url.href
href(url) ==
    url.scheme \o "://" \o url.host \o url.path
        \o (IF url.query = undefined THEN "" ELSE "?" \o url.query[1])
        \o (IF url.fragment = undefined THEN "" ELSE "#" \o url.fragment[1])

\* new URL(path, base) for an absolute path: base's origin with that path
resolve(path, base) == Url(base.scheme, base.host, path, undefined, undefined)

\* issuer URLs a configuration may carry
IssuerUrls ==
    { Url("https", "auth.example.com", "/", undefined, undefined),
      Url("http", "auth.example.com", "/", undefined, undefined),
      Url("http", "localhost", "/", undefined, undefined),
      Url("http", "127.0.0.1", "/", undefined, undefined),
      Url("https", "auth.example.com", "/", undefined, Some("top")),
      Url("https", "auth.example.com", "/", Some("tenant=1"), undefined),
      Url("http", "localhost", "/", undefined, Some("top")),
      Url("http", "127.0.0.1", "/", Some("tenant=1"), undefined),
      Url("http", "auth.example.com", "/", Some("tenant=1"), Some("top")),
      Url("https", "auth.example.com", "/", Some(""), Some("")),
      Url("ftp", "localhost", "/", undefined, undefined),
      Url("http", "[::1]", "/", undefined, undefined) }

\* mutant of checkIssuerUrl: the localhost exemption returns before the other checks
checkIssuerUrl_Exempt(issuer) ==
    IF hostname(issuer) = "localhost" \/ hostname(issuer) = "127.0.0.1"
    THEN ""
    ELSE IF protocol(issuer) # "https:"
    THEN "Issuer URL must be HTTPS"
    ELSE IF hash(issuer) # ""
    THEN "Issuer URL must not have a fragment: " \o href(issuer)
    ELSE IF search(issuer) # ""
    THEN "Issuer URL must not have a query string: " \o href(issuer)
    ELSE ""

\* checkIssuerUrl(issuer): the message of the Error it throws, "" when it returns
checkIssuerUrl(issuer) ==
    IF protocol(issuer) # "https:" /\ hostname(issuer) # "localhost" /\ hostname(issuer) # "127.0.0.1"
    THEN "Issuer URL must be HTTPS"
    ELSE IF hash(issuer) # ""
    THEN "Issuer URL must not have a fragment: " \o href(issuer)
    ELSE IF search(issuer) # ""
    THEN "Issuer URL must not have a query string: " \o href(issuer)
    ELSE ""

----------------------------------------------------------------------------
(* mcpAuthRouter and mcpProtectedResourceRouter, statement by statement.   *)
(* router.pc names the source line the construction is at.                 *)

\* the optional methods a provider exposes (revokeToken, clientsStore.registerClient)
Providers == [revokeToken : BOOLEAN, registerClient : BOOLEAN]

\* InMemoryAuthProvider has no revokeToken; InMemoryClientsStore has registerClient
InMemoryAuthProviderCaps == [revokeToken |-> FALSE, registerClient |-> TRUE]

ServerUrl == Url("https", "api.example.com", "/mcp", undefined, undefined)

BaseUrl == Url("https", "base.example.com", "/", undefined, undefined)

DocsUrl == Url("https", "docs.example.com", "/", undefined, undefined)

\* AuthRouterOptions
AuthRouterOptions ==
    [issuerUrl : IssuerUrls,
     baseUrl : {undefined, Some(BaseUrl)},
     serviceDocumentationUrl : {undefined, Some(DocsUrl)},
     scopesSupported : {undefined, Some(<<"read", "write">>)},
     provider : Providers,
     protectedResourceOptions :
        {undefined, Some([serverUrl |-> ServerUrl, resourceName |-> Some("MCP")])}]

\* ProtectedResourceRouterOptions
ProtectedResourceRouterOptions ==
    [issuerUrl : IssuerUrls,
     serverUrl : {ServerUrl},
     serviceDocumentationUrl : {undefined, Some(DocsUrl)},
     scopesSupported : {undefined, Some(<<"read", "write">>)},
     resourceName : {undefined, Some("MCP")}]

\* options.serviceDocumentationUrl?.href
optHref(optUrl) == IF optUrl = undefined THEN undefined ELSE Some(href(optUrl[1]))

\* const registration_endpoint = ... registerClient ? "/register" : undefined
registrationEndpoint(options) ==
    IF options.provider.registerClient THEN Some("/register") ELSE undefined

\* mutant of revocationEndpoint: the endpoint is advertised whatever the provider exposes
revocationEndpoint_Always(options) == Some("/revoke")

\* const revocation_endpoint = options.provider.revokeToken ? "/revoke" : undefined
revocationEndpoint(options) ==
    IF options.provider.revokeToken THEN Some("/revoke") ELSE undefined

\* const metadata: OAuthMetadata = {...}; every property is held as an optional
authMetadata(options) ==
    LET issuer == options.issuerUrl
        base == OrElse(options.baseUrl, issuer)
        registration_endpoint == registrationEndpoint(options)
        revocation_endpoint == revocationEndpoint(options)
    IN [issuer |-> Some(href(issuer)),
        service_documentation |-> optHref(options.serviceDocumentationUrl),
        authorization_endpoint |-> Some(href(resolve("/authorize", base))),
        response_types_supported |-> Some(<<"code">>),
        code_challenge_methods_supported |-> Some(<<"S256">>),
        token_endpoint |-> Some(href(resolve("/token", base))),
        token_endpoint_auth_methods_supported |-> Some(<<"client_secret_post">>),
        grant_types_supported |-> Some(<<"authorization_code", "refresh_token">>),
        scopes_supported |-> options.scopesSupported,
        revocation_endpoint |->
            IF revocation_endpoint # undefined
            THEN Some(href(resolve(revocation_endpoint[1], base))) ELSE undefined,
        revocation_endpoint_auth_methods_supported |->
            IF revocation_endpoint # undefined
            THEN Some(<<"client_secret_post">>) ELSE undefined,
        registration_endpoint |->
            IF registration_endpoint # undefined
            THEN Some(href(resolve(registration_endpoint[1], base))) ELSE undefined]

\* mutant of protectedOptionsOf: the spread order is reversed, the default
\* serverUrl overrides the one of protectedResourceOptions
protectedOptionsOf_DefaultLast(options) ==
    LET pro == options.protectedResourceOptions IN
    [issuerUrl |-> options.issuerUrl,
     serviceDocumentationUrl |-> options.serviceDocumentationUrl,
     scopesSupported |-> options.scopesSupported,
     serverUrl |-> options.issuerUrl,
     resourceName |-> IF pro = undefined THEN undefined ELSE pro[1].resourceName]

\* the options mcpAuthRouter passes to mcpProtectedResourceRouter:
\* {issuerUrl, serviceDocumentationUrl, scopesSupported, serverUrl: issuer, ...protectedResourceOptions}
protectedOptionsOf(options) ==
    LET pro == options.protectedResourceOptions IN
    [issuerUrl |-> options.issuerUrl,
     serviceDocumentationUrl |-> options.serviceDocumentationUrl,
     scopesSupported |-> options.scopesSupported,
     serverUrl |-> IF pro = undefined THEN options.issuerUrl ELSE pro[1].serverUrl,
     resourceName |-> IF pro = undefined THEN undefined ELSE pro[1].resourceName]

\* const protectedResourceMetadata: OAuthProtectedResourceMetadata = {...}
protectedResourceMetadata(options) ==
    [resource |-> Some(href(options.serverUrl)),
     authorization_servers |-> Some(<<href(options.issuerUrl)>>),
     scopes_supported |-> options.scopesSupported,
     resource_name |-> options.resourceName,
     resource_documentation |-> optHref(options.serviceDocumentationUrl)]

\* getOAuthProtectedResourceMetadataUrl(serverUrl)
getOAuthProtectedResourceMetadataUrl(serverUrl) ==
    href(resolve("/.well-known/oauth-protected-resource", serverUrl))

\* the JSON document metadataHandler serves: properties that are undefined are left out
metadataDocument(metadata) ==
    [f \in {g \in DOMAIN metadata : metadata[g] # undefined} |-> metadata[f][1]]

\* router.use(path, handler)
use(routes, path, handler, body) ==
    Append(routes, [path |-> path, handler |-> handler, body |-> body])

\* mutant of afterCheck: the outcome of the check is ignored
afterCheck_Ignored(message, next) == next

\* the pc a construction continues at after checkIssuerUrl: a throw ends it
afterCheck(message, next) == IF message # "" THEN "threw" ELSE next

RouterAt(pcs) == router.pc \in pcs

Goto(pc, upd) ==
    router' = [f \in DOMAIN router |->
                IF f = "pc" THEN pc ELSE IF f \in DOMAIN upd THEN upd[f] ELSE router[f]]

otherVars == <<clients, codes, tokens, uuids, now, last, issued, consumed, calls, running>>

\* L73: checkIssuerUrl(issuer)
authCheckIssuer ==
    /\ RouterAt({"L73"})
    /\ LET message == checkIssuerUrl(router.options[1].issuerUrl) IN
        Goto(afterCheck(message, "L75"), [checks |-> router.checks + 1, error |-> message])
    /\ UNCHANGED otherVars

\* L75-L98: the endpoint paths and the metadata object
authBuildMetadata ==
    /\ RouterAt({"L75"})
    /\ Goto("L101", [metadata |-> Some(authMetadata(router.options[1]))])
    /\ UNCHANGED otherVars

\* L101: const router = express.Router()
authCreateRouter ==
    /\ RouterAt({"L101"})
    /\ Goto("L103", [routes |-> Some(<<>>)])
    /\ UNCHANGED otherVars

\* L103: router.use("/authorize", authorizationHandler(...))
authMountAuthorize ==
    /\ RouterAt({"L103"})
    /\ Goto("L108", [routes |-> Some(use(router.routes[1], "/authorize", "authorizationHandler", <<>>))])
    /\ UNCHANGED otherVars

\* L108: router.use("/token", tokenHandler(...))
authMountToken ==
    /\ RouterAt({"L108"})
    /\ Goto("L113", [routes |-> Some(use(router.routes[1], "/token", "tokenHandler", <<>>))])
    /\ UNCHANGED otherVars

\* L113: router.use("/.well-known/oauth-authorization-server", metadataHandler(metadata))
authMountMetadata ==
    /\ RouterAt({"L113"})
    /\ Goto("L116", [routes |-> Some(use(router.routes[1], "/.well-known/oauth-authorization-server",
                                       "metadataHandler", router.metadata))])
    /\ UNCHANGED otherVars

\* L116-L126: the call mcpProtectedResourceRouter({...}) is entered
authCallProtected ==
    /\ RouterAt({"L116"})
    /\ Goto("L180", [prOptions |-> Some(protectedOptionsOf(router.options[1]))])
    /\ UNCHANGED otherVars

\* L180: checkIssuerUrl(issuer)
prCheckIssuer ==
    /\ RouterAt({"L180"})
    /\ LET message == checkIssuerUrl(router.prOptions[1].issuerUrl) IN
        Goto(afterCheck(message, "L182"), [checks |-> router.checks + 1, error |-> message])
    /\ UNCHANGED otherVars

\* L182: const router = express.Router()
prCreateRouter ==
    /\ RouterAt({"L182"})
    /\ Goto("L184", [prRoutes |-> Some(<<>>)])
    /\ UNCHANGED otherVars

\* L184-L194: the protected-resource metadata object
prBuildMetadata ==
    /\ RouterAt({"L184"})
    /\ Goto("L196", [prMetadata |-> Some(protectedResourceMetadata(router.prOptions[1]))])
    /\ UNCHANGED otherVars

\* L196: router.use("/.well-known/oauth-protected-resource", metadataHandler(...))
prMountMetadata ==
    /\ RouterAt({"L196"})
    /\ Goto("L198", [prRoutes |-> Some(use(router.prRoutes[1], "/.well-known/oauth-protected-resource",
                                         "metadataHandler", router.prMetadata))])
    /\ UNCHANGED otherVars

\* L198: return router, to the application
prReturn ==
    /\ RouterAt({"L198"}) /\ router.entry = "mcpProtectedResourceRouter"
    /\ Goto("returned", [routes |-> router.prRoutes])
    /\ UNCHANGED otherVars

\* L198, L120: return router, to mcpAuthRouter, which mounts it: router.use(...)
authMountProtected ==
    /\ RouterAt({"L198"}) /\ router.entry = "mcpAuthRouter"
    /\ Goto("L128", [routes |-> Some(router.routes[1] \o router.prRoutes[1])])
    /\ UNCHANGED otherVars

\* L128-L136: if (registration_endpoint) router.use(registration_endpoint, ...)
authMountRegister ==
    /\ RouterAt({"L128"})
    /\ LET registration_endpoint == registrationEndpoint(router.options[1]) IN
        IF registration_endpoint # undefined
        THEN Goto("L138", [routes |-> Some(use(router.routes[1], registration_endpoint[1],
                                               "clientRegistrationHandler", <<>>))])
        ELSE Goto("L138", EmptyMap)
    /\ UNCHANGED otherVars

\* L138-L143: if (revocation_endpoint) router.use(revocation_endpoint, ...)
authMountRevoke ==
    /\ RouterAt({"L138"})
    /\ LET revocation_endpoint == revocationEndpoint(router.options[1]) IN
        IF revocation_endpoint # undefined
        THEN Goto("L145", [routes |-> Some(use(router.routes[1], revocation_endpoint[1],
                                               "revocationHandler", <<>>))])
        ELSE Goto("L145", EmptyMap)
    /\ UNCHANGED otherVars

\* L145: return router
authReturn ==
    /\ RouterAt({"L145"})
    /\ Goto("returned", EmptyMap)
    /\ UNCHANGED otherVars

\* request paths the application may receive
RequestPaths ==
    {"/authorize", "/token", "/register", "/revoke", "/other",
     "/.well-known/oauth-authorization-server", "/.well-known/oauth-protected-resource"}

\* the first mounted route with this path, if any
RECURSIVE route(_, _)
route(routes, path) ==
    IF routes = <<>> THEN undefined
    ELSE IF Head(routes).path = path THEN Some(Head(routes))
    ELSE route(Tail(routes), path)

\* the application, with the returned router installed at its root, handles a
\* request: the matching handler runs; a metadata handler serves its document
Request(path) ==
    /\ RouterAt({"returned"})
    /\ LET r == route(router.routes[1], path) IN
        Goto("returned",
             [served |-> IF r = undefined
                         THEN Some([path |-> path, status |-> 404, body |-> <<>>])
                         ELSE Some([path |-> path, status |-> 200,
                                    body |-> IF r[1].handler = "metadataHandler"
                                             THEN metadataDocument(r[1].body[1])
                                             ELSE <<>>])])
    /\ UNCHANGED otherVars

NewRouter(entry, pc, options, prOptions) ==
    [pc |-> pc, entry |-> entry, options |-> options, prOptions |-> prOptions,
     checks |-> 0, error |-> "", metadata |-> undefined, prMetadata |-> undefined,
     routes |-> undefined, prRoutes |-> undefined, served |-> undefined]

\* one router is being constructed from one configuration
InitRouter ==
    /\ clients = EmptyMap
    /\ codes = EmptyMap
    /\ tokens = EmptyMap
    /\ uuids = 0
    /\ now = Epoch
    /\ last = NoCall
    /\ issued = EmptyMap
    /\ consumed = EmptyMap
    /\ calls = EmptyMap
    /\ running = 0
    /\ \/ \E o \in AuthRouterOptions : router = NewRouter("mcpAuthRouter", "L73", Some(o), undefined)
       \/ \E o \in ProtectedResourceRouterOptions :
            router = NewRouter("mcpProtectedResourceRouter", "L180", undefined, Some(o))

NextRouter ==
    \/ authCheckIssuer
    \/ authBuildMetadata
    \/ authCreateRouter
    \/ authMountAuthorize
    \/ authMountToken
    \/ authMountMetadata
    \/ authCallProtected
    \/ prCheckIssuer
    \/ prCreateRouter
    \/ prBuildMetadata
    \/ prMountMetadata
    \/ prReturn
    \/ authMountProtected
    \/ authMountRegister
    \/ authMountRevoke
    \/ authReturn
    \/ \E path \in RequestPaths : Request(path)

SpecRouter == InitRouter /\ [][NextRouter]_vars

----------------------------------------------------------------------------
(* Properties                                                              *)

\* the errors of the InvalidGrant kind: the two Errors exchangeAuthorizationCode throws
InvalidGrant ==
    {ErrInvalidCode} \cup {ErrNotIssued([client |-> a], b) : a \in ClientObjs, b \in ClientObjs}

\* the client the code was issued to presents it
IsOwner(client, code) == code \in DOMAIN issued /\ issued[code].client_id = client.client_id

\* this step is the call exchangeAuthorizationCode(c, code, v)
\* (every such call records the code and the verifier it presented in last)
ExchangeStep(c, code, v) ==
    /\ last'.op = "exchangeAuthorizationCode"
    /\ last'.arg = code
    /\ last'.verifier = v
    /\ exchangeAuthorizationCode(c, code, v)

\* this step is the call verifyAccessToken(t)
VerifyStep(t) ==
    /\ last'.op = "verifyAccessToken"
    /\ last'.arg = t
    /\ verifyAccessToken(t)

\* C1: an exchange of an issued code by its client succeeds while the code has
\* not been exchanged yet and consumes it; every exchange of a code that has
\* been exchanged, by any client with any verifier, fails with InvalidGrant and
\* mints nothing; an exchanged code is never in the code store again.
C1_ExchangeOnce ==
    [][ /\ \A c \in ClientObjs, code \in DOMAIN issued, v \in Verifiers :
            ExchangeStep(c, code, v) =>
                /\ (IsOwner(c, code) /\ code \notin DOMAIN consumed) =>
                        (last'.ok /\ code \in DOMAIN consumed' /\ code \notin DOMAIN codes')
                /\ code \in DOMAIN consumed =>
                        /\ ~last'.ok
                        /\ last'.err \in InvalidGrant
                        /\ tokens' = tokens
        /\ DOMAIN consumed \cap DOMAIN codes = {}
        /\ DOMAIN consumed' \cap DOMAIN codes' = {} ]_vars

\* C1 witness: a code that had been exchanged was presented again and refused
C1_Witness ==
    /\ last.op = "exchangeAuthorizationCode"
    /\ last.arg \in DOMAIN consumed
    /\ ~last.ok
    /\ last.err = ErrInvalidCode

\* C2: of n >= 2 concurrent exchanges of one code by its client, whatever the
\* interleaving, at most one call ever gets the code record from the lookup;
\* when all have finished exactly one has resolved, the others were rejected
\* with InvalidGrant, and exactly one token has been minted.
C2_RaceOneWinner ==
    /\ Cardinality({i \in CallIds : calls[i].codeData # undefined}) <= 1
    /\ Cardinality(DOMAIN tokens) <= 1
    /\ (\A i \in CallIds : Finished(i)) =>
        /\ Cardinality({i \in CallIds : calls[i].pc = "resolved"}) = 1
        /\ \A i \in CallIds : calls[i].pc = "rejected" => calls[i].err \in InvalidGrant
        /\ Cardinality(DOMAIN tokens) = 1

\* C2 witness: three concurrent exchanges of the code have all finished
C2_Witness ==
    /\ Cardinality(CallIds) >= 3
    /\ \A i \in CallIds : Finished(i)
    /\ \E i \in CallIds : calls[i].pc = "rejected"

\* C3: an exchange by a client whose client_id is not that of the client the
\* code was issued to fails with InvalidGrant and leaves the token store as it
\* was, whatever verifier it presents.
C3_OtherClientRefused ==
    [][ \A c \in ClientObjs, code \in DOMAIN issued, v \in Verifiers :
            (ExchangeStep(c, code, v) /\ ~IsOwner(c, code)) =>
                /\ ~last'.ok
                /\ last'.err \in InvalidGrant
                /\ tokens' = tokens ]_vars

\* C3 witness: a stored code was presented by another client, with the verifier
\* that matches its challenge, and refused
C3_Witness ==
    /\ last.op = "exchangeAuthorizationCode"
    /\ ~last.ok
    /\ last.arg \in DOMAIN codes
    /\ last.err \in InvalidGrant \ {ErrInvalidCode}
    /\ last.verifier # undefined
    /\ S256(last.verifier[1]) = codes[last.arg].params.codeChallenge

\* C4: verifyAccessToken succeeds exactly when the token is stored, is an
\* access token and now < expires_at (at now = expires_at it fails).
C4_VerifyIffUnexpired ==
    [][ \A t \in Presented :
            VerifyStep(t) =>
                (last'.ok <=> /\ t \in DOMAIN tokens
                              /\ tokens[t].type = "access"
                              /\ now < tokens[t].expiresAt) ]_vars

ScopeString(scopes) == IF scopes = <<"read", "write">> THEN "read write" ELSE ""

\* C6: a successful exchange at clock value now adds exactly one token record,
\* of kind access, owned by the presenting client, with the scopes requested at
\* authorize (none: the empty list) and expires_at = now + 3600 s, changes no
\* other record, and returns {that token, Bearer, 3600, scopes joined by spaces}.
C6_MintedToken ==
    [][ \A c \in ClientObjs, code \in DOMAIN codes, v \in Verifiers :
            (ExchangeStep(c, code, v) /\ last'.ok) =>
                LET new == DOMAIN tokens' \ DOMAIN tokens
                    requested == codes[code].params.scopes
                    scopes == IF requested = undefined THEN <<>> ELSE requested[1]
                IN  /\ Cardinality(new) = 1
                    /\ \A t \in DOMAIN tokens : t \in DOMAIN tokens' /\ tokens'[t] = tokens[t]
                    /\ \A t \in new :
                        /\ tokens'[t].type = "access"
                        /\ tokens'[t].clientId = c.client_id
                        /\ tokens'[t].scopes = scopes
                        /\ tokens'[t].expiresAt = now + 3600 * 1000
                        /\ last'.ret = [access_token |-> t, token_type |-> "Bearer",
                                        expires_in |-> 3600, scope |-> ScopeString(scopes)] ]_vars

\* C6 witness: an exchange of a code with scopes read and write has succeeded
C6_Witness ==
    /\ last.op = "exchangeAuthorizationCode"
    /\ last.ok
    /\ last.ret.scope = "read write"
    /\ last.ret.access_token \in DOMAIN tokens

\* C7: verifyAccessToken changes neither the code store, nor the token store,
\* nor the client registry, nor anything else another operation reads (the
\* UUID source, the clock), whether it succeeds or fails.
C7_VerifyReadOnly ==
    [][ \A t \in Presented :
            VerifyStep(t) =>
                UNCHANGED <<codes, tokens, clients, uuids, now, issued, consumed>> ]_vars

\* C7 witness: an expired token was refused by verifyAccessToken and is still stored
C7_Witness ==
    /\ last.op = "verifyAccessToken"
    /\ ~last.ok
    /\ last.arg \in DOMAIN tokens
    /\ tokens[last.arg].expiresAt < now

\* the issuer URL of the configuration the router is built from
Issuer == IF router.options # undefined THEN router.options[1].issuerUrl
          ELSE router.prOptions[1].issuerUrl

\* the issuer rule: no fragment, no query string (a "#" or "?" with nothing
\* after it counts as none), and https unless the host is localhost or 127.0.0.1
ValidIssuer(u) ==
    /\ u.fragment \in {undefined, Some("")}
    /\ u.query \in {undefined, Some("")}
    /\ (u.scheme = "https" \/ u.host \in {"localhost", "127.0.0.1"})

Constructing == router.pc # "unused"

\* C8: the issuer is accepted exactly when it satisfies the issuer rule; with
\* any other issuer mcpAuthRouter and mcpProtectedResourceRouter throw at their
\* check, and with an accepted one they never throw.
C8_IssuerRule ==
    Constructing =>
        /\ router.pc = "threw" => (~ValidIssuer(Issuer) /\ router.error # "")
        /\ router.checks >= 1 => (router.pc = "threw" <=> ~ValidIssuer(Issuer))
        /\ router.pc \in {"L73", "L180"} /\ router.checks = 0 =>
                (checkIssuerUrl(Issuer) = "" <=> ValidIssuer(Issuer))

\* C8 witness: mcpAuthRouter has thrown for the issuer http://auth.example.com/
C8_Witness ==
    /\ Constructing
    /\ router.entry = "mcpAuthRouter"
    /\ router.pc = "threw"
    /\ href(Issuer) = "http://auth.example.com/"
    /\ router.error = "Issuer URL must be HTTPS"

AuthRoutePaths ==
    {"/authorize", "/token", "/register", "/revoke",
     "/.well-known/oauth-authorization-server", "/.well-known/oauth-protected-resource"}

NothingBuilt ==
    /\ router.metadata = undefined
    /\ router.prMetadata = undefined
    /\ router.routes = undefined
    /\ router.prRoutes = undefined

C9_State ==
    Constructing =>
        /\ router.pc = "threw" => NothingBuilt
        /\ ~NothingBuilt => (router.checks >= 1 /\ ValidIssuer(Issuer))
        /\ router.pc = "returned" =>
                \A k \in DOMAIN router.routes[1] : router.routes[1][k].path \in AuthRoutePaths

\* C9: nothing is built or mounted before the issuer has passed the check: a
\* construction that throws has built no metadata and mounted no route, every
\* metadata object and route exists only for a valid issuer, and once the
\* router is returned (requests are being handled) the check never runs again.
C9_CheckFirst ==
    [][ /\ C9_State
        /\ C9_State'
        /\ (Constructing /\ router.pc = "returned") => router'.checks = router.checks ]_vars

\* C9 witness: mcpAuthRouter has thrown at its check with nothing built
C9_Witness ==
    /\ Constructing
    /\ router.entry = "mcpAuthRouter"
    /\ router.pc = "threw"
    /\ router.checks = 1
    /\ NothingBuilt

AuthServerPath == "/.well-known/oauth-authorization-server"

\* C10: in the authorization-server metadata, revocation_endpoint and
\* revocation_endpoint_auth_methods_supported are defined exactly when the
\* provider has revokeToken, registration_endpoint exactly when the client
\* store has registerClient; the served document has exactly the defined
\* properties (a missing one is left out, never null or empty).
C10_OptionalEndpoints ==
    (Constructing /\ router.metadata # undefined) =>
        LET m == router.metadata[1]
            p == router.options[1].provider
        IN  /\ m.revocation_endpoint # undefined <=> p.revokeToken
            /\ m.revocation_endpoint_auth_methods_supported # undefined <=> p.revokeToken
            /\ m.registration_endpoint # undefined <=> p.registerClient
            /\ m.revocation_endpoint \notin {Some("")}
            /\ m.registration_endpoint \notin {Some("")}
            /\ p = InMemoryAuthProviderCaps =>
                    (m.revocation_endpoint = undefined /\ m.registration_endpoint # undefined)
            /\ (router.served # undefined /\ router.served[1].path = AuthServerPath) =>
                LET doc == router.served[1].body IN
                    /\ "revocation_endpoint" \in DOMAIN doc <=> p.revokeToken
                    /\ "revocation_endpoint_auth_methods_supported" \in DOMAIN doc <=> p.revokeToken
                    /\ "registration_endpoint" \in DOMAIN doc <=> p.registerClient

\* C10 witness: the metadata document of a router built for the reference
\* provider has been served, without revocation_endpoint, with registration_endpoint
C10_Witness ==
    /\ Constructing
    /\ router.entry = "mcpAuthRouter"
    /\ router.served # undefined
    /\ router.served[1].path = AuthServerPath
    /\ router.options[1].provider = InMemoryAuthProviderCaps
    /\ "revocation_endpoint" \notin DOMAIN router.served[1].body
    /\ "registration_endpoint" \in DOMAIN router.served[1].body


\* this step is the call exchangeRefreshToken(c, t, sc)
RefreshStep(c, t, sc) ==
    /\ last'.op = "exchangeRefreshToken"
    /\ last'.arg = t
    /\ exchangeRefreshToken(c, t, sc)

\* C11: exchangeRefreshToken throws the not-implemented Error for every client,
\* refresh token string and scope list and leaves the code store and the token
\* store unchanged; no stored token is ever of kind refresh.
C11_RefreshNotImplemented ==
    [][ /\ \A c \in ClientObjs, t \in Presented, sc \in {undefined, Some(<<"read">>)} :
            RefreshStep(c, t, sc) =>
                /\ ~last'.ok
                /\ last'.err = ErrNotImplemented
                /\ UNCHANGED <<codes, tokens>>
        /\ \A t \in DOMAIN tokens' : tokens'[t].type # "refresh" ]_vars

\* C11 witness: exchangeRefreshToken was called with a stored token string and threw
C11_Witness ==
    /\ last.op = "exchangeRefreshToken"
    /\ last.arg \in DOMAIN tokens
    /\ ~last.ok
    /\ last.err = ErrNotImplemented


\* C12: the redirect produced by authorize targets params.redirect_uri, with
\* the new code as query parameter code and, when params.state is present,
\* state as query parameter state.
C12_RedirectTarget ==
    last.op = "authorize" =>
        LET target == last.ret
            code == target.search[1][2]
            params == codes[code].params
        IN  /\ target.base = params.redirectUri
            /\ target.search[1] = <<"code", code>>
            /\ params.state = undefined => Len(target.search) = 1
            /\ params.state # undefined =>
                    /\ Len(target.search) = 2
                    /\ target.search[2] = <<"state", params.state[1]>>


\* the code whose exchange minted token t
CodeOf(t) == CHOOSE code \in DOMAIN consumed : consumed[code] = t

\* C13 as stated: a successful verifyAccessToken returns the presented token
\* with the client_id, scopes and expires_at of the stored token record.
C13_ReturnsStoredRecord ==
    (last.op = "verifyAccessToken" /\ last.ok) =>
        /\ last.arg \in DOMAIN tokens
        /\ last.ret = [token |-> last.arg,
                       clientId |-> tokens[last.arg].clientId,
                       scopes |-> tokens[last.arg].scopes,
                       expiresAt |-> tokens[last.arg].expiresAt]

\* C13 amended: a successful verifyAccessToken returns the presented token,
\* the client_id of the client the code was issued to, the scopes of the
\* stored record, and the stored expiry in milliseconds converted to whole
\* seconds (rounded down).
C13_ReturnsExpiryInSeconds ==
    (last.op = "verifyAccessToken" /\ last.ok) =>
        /\ last.arg \in DOMAIN tokens
        /\ last.ret.token = last.arg
        /\ last.ret.clientId = tokens[last.arg].clientId
        /\ last.ret.clientId = issued[CodeOf(last.arg)].client_id
        /\ last.ret.scopes = tokens[last.arg].scopes
        /\ last.ret.expiresAt = tokens[last.arg].expiresAt \div MS_PER_S

C13_Witness ==
    /\ last.op = "verifyAccessToken"
    /\ last.ok
    /\ tokens[last.arg].expiresAt % MS_PER_S # 0
    /\ last.ret.expiresAt # tokens[last.arg].expiresAt


\* the serverUrl the protected-resource router is configured with: given
\* directly, or through mcpAuthRouter the issuer unless
\* protectedResourceOptions carries one
ConfiguredServerUrl ==
    IF router.entry = "mcpProtectedResourceRouter" THEN router.prOptions[1].serverUrl
    ELSE IF router.options[1].protectedResourceOptions = undefined
         THEN router.options[1].issuerUrl
         ELSE router.options[1].protectedResourceOptions[1].serverUrl

\* C14: the protected-resource metadata has resource = the configured
\* serverUrl and authorization_servers = [issuer]; through mcpAuthRouter the
\* serverUrl is the issuer unless protectedResourceOptions.serverUrl is given,
\* and authorization_servers is [issuer] either way.
C14_ProtectedResourceMetadata ==
    (Constructing /\ router.prMetadata # undefined) =>
        /\ router.prMetadata[1].resource = Some(href(ConfiguredServerUrl))
        /\ router.prMetadata[1].authorization_servers = Some(<<href(Issuer)>>)

\* C14 witness: built through mcpAuthRouter with protectedResourceOptions
\* given, the resource is that serverUrl and not the issuer
C14_Witness ==
    /\ Constructing
    /\ router.entry = "mcpAuthRouter"
    /\ router.options[1].protectedResourceOptions # undefined
    /\ router.prMetadata # undefined
    /\ router.prMetadata[1].resource = Some(href(ServerUrl))
    /\ router.prMetadata[1].resource # Some(href(Issuer))
    /\ router.prMetadata[1].authorization_servers = Some(<<href(Issuer)>>)


\* C15: in exchangeAuthorizationCode the code record is deleted, once the
\* lookup and ownership checks have passed, before the token is created and
\* stored: a call past the delete has its code absent from the code store
\* while its token is not stored yet, and a code for which a token has been
\* stored is never in the code store.
C15_DeleteBeforeMint ==
    /\ \A i \in CallIds :
        /\ calls[i].pc \in {"L90", "L101", "L103", "resolved"} =>
                calls[i].code \notin DOMAIN codes
        /\ calls[i].pc \in {"L78", "L82", "L87", "L90", "L101"} =>
                calls[i].token \notin DOMAIN tokens
    /\ \A code \in DOMAIN consumed :
        /\ consumed[code] \in DOMAIN tokens
        /\ code \notin DOMAIN codes

\* C15 witness: a call has deleted the code and drawn its token, which is
\* not stored yet
C15_Witness ==
    \E i \in CallIds :
        /\ calls[i].pc = "L101"
        /\ calls[i].code \notin DOMAIN codes
        /\ calls[i].token # 0
        /\ DOMAIN tokens = {}


\* this step is the call authorize(c, p)
AuthorizeStep(c, p) ==
    /\ last'.op = "authorize"
    /\ authorize(c, p)

\* C16: authorize adds exactly one code record, under a code that was not in
\* the code store (nor ever issued before), holding the calling client and the
\* authorization parameters; the existing code records, the token store and
\* the client registry are unchanged, and the call does not fail for inputs
\* the authorization handler has validated.
C16_AuthorizeAddsOneCode ==
    [][ \A c \in ClientObjs, p \in ParamsSet :
            (Permitted(c, p) /\ AuthorizeStep(c, p)) =>
                /\ last'.ok
                /\ \E k \in DOMAIN codes' :
                    /\ k \notin DOMAIN codes
                    /\ k \notin DOMAIN issued
                    /\ k \notin DOMAIN tokens
                    /\ DOMAIN codes' = DOMAIN codes \cup {k}
                    /\ codes'[k].client = c
                    /\ codes'[k].params.codeChallenge = p.codeChallenge
                    /\ codes'[k].params.scopes = p.scopes
                    /\ codes'[k].params.redirectUri = p.redirectUri
                /\ \A j \in DOMAIN codes : codes'[j] = codes[j]
                /\ UNCHANGED <<tokens, clients>> ]_vars

\* C16 witness: authorize has returned with a second code record next to an
\* earlier one
C16_Witness ==
    /\ last.op = "authorize"
    /\ last.ok
    /\ Cardinality(DOMAIN codes) = 2
    /\ \E k \in DOMAIN codes : codes[k].params.scopes # undefined


\* token t is stored and the last call was a verifyAccessToken that refused it
RejectedExpired(t) ==
    /\ last.op = "verifyAccessToken"
    /\ last.arg = t
    /\ ~last.ok
    /\ t \in DOMAIN tokens

\* a verifyAccessToken(t) made in this state would return
Accepts(t) == ENABLED (verifyAccessToken(t) /\ last'.ok)

WrongClientRefused(code) ==
    /\ last.op = "exchangeAuthorizationCode"
    /\ last.arg = code
    /\ ~last.ok
    /\ last.err \in InvalidGrant \ {ErrInvalidCode}

\* C18: an exchangeAuthorizationCode that fails (code unknown or already
\* exchanged, or presented by another client) leaves the code store and the
\* token store as they were; an attempt by the wrong client keeps the code
\* record, and the issuing client's exchange right after it succeeds.
C18_FailedExchangeChangesNothing ==
    [][ /\ \A c \in ClientObjs, code \in Presented, v \in Verifiers :
            (ExchangeStep(c, code, v) /\ ~last'.ok) => UNCHANGED <<codes, tokens>>
        /\ \A c \in ClientObjs, code \in DOMAIN codes, v \in Verifiers :
            (ExchangeStep(c, code, v) /\ ~IsOwner(c, code)) =>
                /\ ~last'.ok
                /\ code \in DOMAIN codes'
                /\ codes'[code] = codes[code]
        /\ \A c \in ClientObjs, code \in DOMAIN issued, v \in Verifiers :
            (WrongClientRefused(code) /\ IsOwner(c, code) /\ ExchangeStep(c, code, v)) =>
                /\ last'.ok
                /\ code \notin DOMAIN codes'
                /\ last'.ret.access_token \in DOMAIN tokens' \ DOMAIN tokens ]_vars

\* C18 witness: the wrong client has just been refused a code that is still
\* stored, and the issuing client's exchange of it would now succeed
C18_Witness ==
    \E code \in DOMAIN codes :
        /\ WrongClientRefused(code)
        /\ ENABLED (exchangeAuthorizationCode(issued[code], code, undefined) /\ last'.ok)


ChallengeStep(c, code) ==
    /\ last'.op = "challengeForAuthorizationCode"
    /\ last'.arg = code
    /\ challengeForAuthorizationCode(c, code)

\* C20: challengeForAuthorizationCode returns, to whichever client presents
\* it, the code challenge stored at authorize for a code in the code store; it
\* fails for a code never issued or already exchanged; it changes neither the
\* code store nor the token store.
C20_ChallengeLookup ==
    /\ [](\A c \in ClientObjs, code \in DOMAIN codes :
            ENABLED (/\ challengeForAuthorizationCode(c, code)
                     /\ last'.ok
                     /\ last'.ret = [string |-> codes[code].params.codeChallenge]))
    /\ [][ \A c \in ClientObjs, code \in Presented :
            ChallengeStep(c, code) =>
                /\ code \in DOMAIN codes =>
                        /\ last'.ok
                        /\ last'.ret = [string |-> codes[code].params.codeChallenge]
                /\ (code \notin DOMAIN issued \/ code \in DOMAIN consumed) =>
                        /\ ~last'.ok
                        /\ last'.err = ErrInvalidCode
                /\ UNCHANGED <<codes, tokens>> ]_vars

\* C20 witness: the challenge of a stored code has been returned, the code is
\* still stored, and a client it was not issued to would be given it as well
C20_Witness ==
    /\ last.op = "challengeForAuthorizationCode"
    /\ last.ok
    /\ last.arg \in DOMAIN codes
    /\ last.ret.string = codes[last.arg].params.codeChallenge
    /\ \E c \in ClientObjs :
        /\ ~IsOwner(c, last.arg)
        /\ ENABLED (challengeForAuthorizationCode(c, last.arg) /\ last'.ok)

====
